---- MODULE Spec2Model ----
(***************************************************************************)
(* BaseItemRecommendation                                                  *)
(* (caserec/recommenders/item_recommendation/base_item_recommendation.py)  *)
(* as a state machine: the instance's fields are the variables, every      *)
(* method is one action.  External identifiers of users and items are      *)
(* integers with their natural order; Python dictionaries are functions    *)
(* with a finite domain; lists are sequences; indices are 0-based as in    *)
(* the source.                                                             *)
(***************************************************************************)
EXTENDS Integers, Sequences, FiniteSets, TLC

\* ---------------------------------------------------------------- bounds
NUsers == 2
NItems == 2
MaxFeedback == 2
MaxRows == 2
MaxTestRows == 1
MaxRanking == 2
Scale == 100

UserIds == 1..NUsers
ItemIds == 1..NItems
Feedbacks == 1..MaxFeedback

VARIABLES
    \* constructor arguments (lines 54-62); train_file / test_file hold the
    \* content of the source (a dataframe, or the rows of the file)
    train_file, test_file, output_file, as_binary, similarity_metric,
    sep, output_sep, verbose, recommender_name,
    \* internal vars (lines 64-77)
    item_to_item_id, item_id_to_item, user_to_user_id, user_id_to_user,
    train_set, test_set, users, items, matrix, evaluation_results, ranking,
    \* the caller's view: the last method called, the exception it raised,
    \* the value returned by compute_similarity, and the calls received by
    \* the collaborators WriteFile and ItemRecommendationEvaluation
    last, raised, similarity_matrix, written, evaluated

config == <<train_file, test_file, output_file, as_binary, similarity_metric,
            sep, output_sep, verbose, recommender_name>>
maps == <<item_to_item_id, item_id_to_item, user_to_user_id, user_id_to_user>>
data == <<train_set, test_set, users, items>>
vars == <<config, maps, data, matrix, evaluation_results, ranking,
          last, raised, similarity_matrix, written, evaluated>>

\* ---------------------------------------------------------------- values
\* Python's None, for the fields that hold a dictionary or an array
None == [none |-> TRUE]
\* Python's None, for the fields that hold a list of entities (ids are >= 1)
NoneList == <<0>>
\* Python's None, for the fields that hold a string
NoneStr == "None"
\* {} : the empty dictionary
EmptyDict == <<>>

Min(S) == CHOOSE x \in S : \A y \in S : x <= y
Max(S) == CHOOSE x \in S : \A y \in S : y <= x

RECURSIVE sorted(_)
\* sorted(set(...)) of a set of integers
sorted(S) == IF S = {} THEN <<>> ELSE <<Min(S)>> \o sorted(S \ {Min(S)})

Range(s) == {s[k] : k \in 1..Len(s)}

\* d.update({k: v})
DictUpdate(d, k, v) == [x \in DOMAIN d \cup {k} |-> IF x = k THEN v ELSE d[x]]

\* ---------------------------------------------------------------- sources
\* The content of a train / test source: rows (user, item, feedback value),
\* at most one row per (user, item) pair.
Rows == UserIds \X ItemIds \X Feedbacks
\* the feedback values of the test rows are never read by this class
TestRows == UserIds \X ItemIds \X {1}
\* the row r can be added to src: src has no row for its (user, item) pair
NoDuplicates(src, r) == \A q \in src : q[1] # r[1] \/ q[2] # r[2]
RECURSIVE Sources(_, _)
\* the sources of at most n rows
Sources(rows, n) ==
    IF n = 0 THEN {{}}
    ELSE LET smaller == Sources(rows, n - 1)
         IN smaller \cup {p[1] \cup {p[2]} :
                            p \in {q \in smaller \X rows : NoDuplicates(q[1], q[2])}}

\* ReadFile(...).read() / ReadDataframe(...).read(): the common in-memory
\* interaction structure: the distinct users and the distinct items, each
\* list in ascending order, the feedback of every user as a dictionary
\* item -> value, and the number of interactions; as_binary clamps every
\* feedback value to 1.
ReadFile(src, binary) ==
    LET U == {r[1] : r \in src}
        I == {r[2] : r \in src}
    IN [users |-> sorted(U),
        items |-> sorted(I),
        feedback |-> [u \in U |->
                        [i \in {r[2] : r \in {q \in src : q[1] = u}} |->
                            IF binary THEN 1
                            ELSE (CHOOSE r \in src : r[1] = u /\ r[2] = i)[3]]],
        number_interactions |-> Cardinality(src)]

\* ---------------------------------------------------------------- read_data
\* line 98 / 99: sorted(set(list(train) + list(test)))
Universe(train_list, test_list) == sorted(Range(train_list) \cup Range(test_list))

\* a forward map that numbers the entities from 1
ForwardEntryFromOne(fwd, entity, i) == DictUpdate(fwd, entity, i + 1)
\* line 105 / 108 with 0-based position i: forward.update({entity: i})
ForwardEntry(fwd, entity, i) == DictUpdate(fwd, entity, i)
\* line 106 / 109: reverse.update({i: entity})
ReverseEntry(rev, entity, i) == DictUpdate(rev, i, entity)

RECURSIVE EnumerateForward(_, _, _)
\* the loops of lines 104-109 on the forward map, from 1-based position k on
EnumerateForward(fwd, list, k) ==
    IF k > Len(list) THEN fwd
    ELSE EnumerateForward(ForwardEntry(fwd, list[k], k - 1), list, k + 1)

RECURSIVE EnumerateReverse(_, _, _)
\* the loops of lines 104-109 on the reverse map
EnumerateReverse(rev, list, k) ==
    IF k > Len(list) THEN rev
    ELSE EnumerateReverse(ReverseEntry(rev, list[k], k - 1), list, k + 1)

\* lines 85-88
ReadTrain == ReadFile(train_file, as_binary)
\* lines 90-96: the test set is read only when a test source is configured
ReadTest == IF test_file # None THEN ReadFile(test_file.rows, FALSE) ELSE test_set
\* lines 98-102: the universe is the train entities, or the sorted union of
\* the train and test entities when a test source is configured
UsersOf(tr, te) == IF test_file # None THEN Universe(tr.users, te.users) ELSE tr.users
ItemsOf(tr, te) == IF test_file # None THEN Universe(tr.items, te.items) ELSE tr.items
ReadUsers == UsersOf(ReadTrain, ReadTest)
ReadItems == ItemsOf(ReadTrain, ReadTest)

\* the body of read_data (lines 79-111)
read_data ==
    /\ train_set' = ReadTrain
    /\ test_set' = ReadTest
    /\ users' = UsersOf(train_set', test_set')
    /\ items' = ItemsOf(train_set', test_set')
    /\ item_to_item_id' = EnumerateForward(item_to_item_id, items', 1)
    /\ item_id_to_item' = EnumerateReverse(item_id_to_item, items', 1)
    /\ user_to_user_id' = EnumerateForward(user_to_user_id, users', 1)
    /\ user_id_to_user' = EnumerateReverse(user_id_to_user, users', 1)

\* ---------------------------------------------------------------- create_matrix
\* the cell as filled by an assignment with the two indices exchanged
CellIndicesExchanged(ts, u2id, i2id, row, col) ==
    LET hits == {p \in {<<u, i>> : u \in Range(ts.users), i \in ItemIds} :
                    /\ p[2] \in DOMAIN ts.feedback[p[1]]
                    /\ u2id[p[1]] = col
                    /\ i2id[p[2]] = row}
    IN IF hits = {} THEN 0
       ELSE LET p == CHOOSE p \in hits : \A q \in hits :
                        \/ q[1] < p[1]
                        \/ (q[1] = p[1] /\ q[2] <= p[2])
            IN ts.feedback[p[1]][p[2]]
\* lines 119-122: the value assigned to cell (row, col), 0 when no train
\* interaction is stored there (np.zeros, line 117)
Cell(ts, u2id, i2id, row, col) ==
    LET hits == {p \in {<<u, i>> : u \in Range(ts.users), i \in ItemIds} :
                    /\ p[2] \in DOMAIN ts.feedback[p[1]]
                    /\ u2id[p[1]] = row
                    /\ i2id[p[2]] = col}
    IN IF hits = {} THEN 0
       \* the loop runs over train users and their items in order: the last
       \* assignment to the cell stays
       ELSE LET p == CHOOSE p \in hits : \A q \in hits :
                        \/ q[1] < p[1]
                        \/ (q[1] = p[1] /\ q[2] <= p[2])
            IN ts.feedback[p[1]][p[2]]

\* the array built by lines 117-122
BuildMatrix(ts, us, its, u2id, i2id) ==
    [shape |-> <<Len(us), Len(its)>>,
     cells |-> [c \in (0..(Len(us) - 1)) \X (0..(Len(its) - 1)) |->
                    Cell(ts, u2id, i2id, c[1], c[2])]]

\* ---------------------------------------------------------------- Init
\* the fields set by the constructor (lines 64-77)
Constructed ==
    /\ item_to_item_id = EmptyDict
    /\ item_id_to_item = EmptyDict
    /\ user_to_user_id = EmptyDict
    /\ user_id_to_user = EmptyDict
    /\ train_set = None
    /\ test_set = None
    /\ users = NoneList
    /\ items = NoneList
    /\ matrix = None
    /\ evaluation_results = None
    /\ ranking = <<>>
    /\ last = "__init__"
    /\ raised = "none"
    /\ similarity_matrix = None
    /\ written = None
    /\ evaluated = None

TestSources == {None} \cup {[rows |-> s] : s \in Sources(TestRows, MaxTestRows)}

\* an instance built over any train source and any (or no) test source
DataInit ==
    /\ train_file \in Sources(Rows, MaxRows)
    /\ test_file \in TestSources
    /\ output_file = NoneStr
    /\ as_binary = FALSE
    /\ similarity_metric = "cosine"
    /\ sep = "\t"
    /\ output_sep = "\t"
    /\ verbose = FALSE
    /\ recommender_name = NoneStr
    /\ Constructed

\* ---------------------------------------------------------------- actions
call_read_data ==
    /\ read_data
    /\ last' = "read_data"
    /\ raised' = "none"
    /\ UNCHANGED <<config, matrix, evaluation_results, ranking,
                   similarity_matrix, written, evaluated>>

\* create_matrix (lines 113-122); before any read_data len(self.users) is
\* len(None): TypeError, nothing assigned
create_matrix ==
    /\ IF users = NoneList \/ items = NoneList
       THEN /\ raised' = "TypeError"
            /\ UNCHANGED matrix
       ELSE /\ raised' = "none"
            /\ matrix' = BuildMatrix(train_set, users, items,
                                     user_to_user_id, item_to_item_id)
    /\ last' = "create_matrix"
    /\ UNCHANGED <<config, maps, data, evaluation_results, ranking,
                   similarity_matrix, written, evaluated>>

\* ---------------------------------------------------------------- compute
\* compute without line 203
KeepRanking == ranking
\* line 203: self.ranking = []
ResetRanking == <<>>

\* lines 205-224: the header is built when verbose or self.verbose; the title
\* concatenates a string and self.recommender_name (None unless a concrete
\* recommender has set it): TypeError
HeaderRaises(verbose_arg) == (verbose_arg \/ verbose) /\ recommender_name = NoneStr

\* a compute that goes on to build the matrix itself
compute_and_create_matrix(verbose_arg) ==
    /\ read_data
    /\ ranking' = ResetRanking
    /\ matrix' = BuildMatrix(train_set', users', items',
                             user_to_user_id', item_to_item_id')
    /\ raised' = IF HeaderRaises(verbose_arg) THEN "TypeError" ELSE "none"
    /\ last' = "compute"
    /\ UNCHANGED <<config, evaluation_results, similarity_matrix, written, evaluated>>

\* compute (lines 190-224)
compute(verbose_arg) ==
    /\ read_data
    /\ ranking' = ResetRanking
    /\ raised' = IF HeaderRaises(verbose_arg) THEN "TypeError" ELSE "none"
    /\ last' = "compute"
    /\ UNCHANGED <<config, matrix, evaluation_results,
                   similarity_matrix, written, evaluated>>

\* The ranking-producing step of a concrete recommender, to which compute
\* hands over: it appends (user, item, score) tuples to self.ranking.
predict ==
    /\ users # NoneList
    /\ items # NoneList
    /\ Len(items) > 0
    /\ Len(ranking) < MaxRanking
    /\ Len(users) > 0
    /\ ranking' = Append(ranking, <<users[1], items[1], Len(ranking) + 1>>)
    /\ last' = "predict"
    /\ raised' = "none"
    /\ UNCHANGED <<config, maps, data, matrix, evaluation_results,
                   similarity_matrix, written, evaluated>>

\* ---------------------------------------------------------------- evaluate
\* lines 170-171 and 173-174: the defaults of metrics and n_ranks
DefaultMetrics == <<"PREC", "RECALL", "MAP", "NDCG", "MRR">>
DefaultRanks == <<1, 3, 5, 10>>
MetricsOrDefault(metrics) == IF metrics = None THEN DefaultMetrics ELSE metrics.list
RanksOrDefault(n_ranks) == IF n_ranks = None THEN DefaultRanks ELSE n_ranks.list

\* lines 176-179: what ItemRecommendationEvaluation receives
EvaluationCall(metrics, n_ranks) ==
    [predictions |-> ranking, test_set |-> test_set,
     metrics |-> MetricsOrDefault(metrics), n_ranks |-> RanksOrDefault(n_ranks)]

\* evaluate_recommender: a mapping from metric to score; only its presence
\* matters here
EvaluateRecommender(call) == [results |-> [m \in Range(call.metrics) |-> Len(call.predictions)]]

\* the values evaluate is called with
MetricsArgs == {None, [list |-> <<"PREC">>]}
RanksArgs == {None, [list |-> <<1>>]}

\* evaluate (lines 146-179).  Nothing in it looks at self.test_set: the
\* collaborator is invoked in every case.  Given no test set it either
\* raises (self.evaluation_results stays {}, line 168) or returns.
evaluate(metrics, n_ranks) ==
    /\ evaluated' = EvaluationCall(metrics, n_ranks)
    /\ \/ /\ evaluation_results' = EvaluateRecommender(EvaluationCall(metrics, n_ranks))
          /\ raised' = "none"
       \/ /\ test_set = None
          /\ evaluation_results' = [results |-> EmptyDict]
          /\ raised' = "TypeError"
    /\ last' = "evaluate"
    /\ UNCHANGED <<config, maps, data, matrix, ranking, similarity_matrix, written>>

\* ---------------------------------------------------------------- write_ranking
\* line 188: the delimiter handed to WriteFile
WriteSep == sep

\* write_ranking (lines 181-188)
write_ranking ==
    /\ IF output_file # NoneStr
       THEN written' = [file |-> output_file, data |-> ranking, sep |-> WriteSep]
       ELSE UNCHANGED written
    /\ last' = "write_ranking"
    /\ raised' = "none"
    /\ UNCHANGED <<config, maps, data, matrix, evaluation_results, ranking,
                   similarity_matrix, evaluated>>

\* ---------------------------------------------------------------- sources
\* the end-to-end scenarios: train rows (u1,i1,5), (u1,i2,3), (u2,i1,4) and
\* test row (u2,i2,1); and the empty train source
ScenarioTrain == {<<1, 1, 5>>, <<1, 2, 3>>, <<2, 1, 4>>}
ScenarioTest == {<<2, 2, 1>>}
RunTrainSources == {ScenarioTrain, {}}
RunTestSources == {None, [rows |-> ScenarioTest]}
Seps == {"\t", ","}

\* an instance of a concrete recommender over the scenario sources
Init ==
    /\ train_file \in RunTrainSources
    /\ test_file \in RunTestSources
    /\ output_file \in {NoneStr, "ranking.dat"}
    /\ as_binary = FALSE
    /\ similarity_metric = "cosine"
    /\ sep \in Seps
    /\ output_sep \in Seps
    /\ verbose = FALSE
    /\ recommender_name \in {NoneStr, "ItemKNN"}
    /\ Constructed

Next ==
    \/ \E verbose_arg \in BOOLEAN : compute(verbose_arg)
    \/ create_matrix
    \/ predict
    \/ \E metrics \in MetricsArgs, n_ranks \in RanksArgs : evaluate(metrics, n_ranks)
    \/ write_ranking

Spec == Init /\ [][Next]_vars

\* ---------------------------------------------------------------- compute_similarity
\* Distances and similarities are fixed-point numbers: the integer n stands
\* for n / Scale, rounded down.  NaN stands for the undefined value.
NaN == -1
Metrics == {"cosine", "cityblock"}

\* lines 134-137: the vectors compared are the rows of self.matrix, or the
\* rows of self.matrix.T
VectorCount(m, transpose) == IF transpose THEN m.shape[2] ELSE m.shape[1]
VectorLen(m, transpose) == IF transpose THEN m.shape[1] ELSE m.shape[2]
Entry(m, transpose, a, k) == IF transpose THEN m.cells[<<k, a>>] ELSE m.cells[<<a, k>>]

RECURSIVE DotFrom(_, _, _, _, _)
DotFrom(m, transpose, a, b, k) ==
    IF k >= VectorLen(m, transpose) THEN 0
    ELSE Entry(m, transpose, a, k) * Entry(m, transpose, b, k)
         + DotFrom(m, transpose, a, b, k + 1)
Dot(m, transpose, a, b) == DotFrom(m, transpose, a, b, 0)

Abs(x) == IF x < 0 THEN -x ELSE x
RECURSIVE AbsDiffFrom(_, _, _, _, _)
AbsDiffFrom(m, transpose, a, b, k) ==
    IF k >= VectorLen(m, transpose) THEN 0
    ELSE Abs(Entry(m, transpose, a, k) - Entry(m, transpose, b, k))
         + AbsDiffFrom(m, transpose, a, b, k + 1)

\* the largest r with r * r <= x, for x <= Scale * Scale
ISqrt(x) == CHOOSE r \in 0..Scale : r * r <= x /\ x < (r + 1) * (r + 1)

\* pdist(..., 'cosine'): 1 - u.v / (|u| |v|), undefined when u or v is zero
Cosine(m, transpose, a, b) ==
    LET uv == Dot(m, transpose, a, b)
        uu == Dot(m, transpose, a, a)
        vv == Dot(m, transpose, b, b)
    IN IF uu * vv = 0 THEN NaN
       ELSE Scale - ISqrt((uv * uv * Scale * Scale) \div (uu * vv))

\* pdist(..., 'cityblock'): sum of |u_k - v_k|
Cityblock(m, transpose, a, b) == Scale * AbsDiffFrom(m, transpose, a, b, 0)

\* pdist(X, metric) for the pair a < b
Pdist(m, metric, transpose, a, b) ==
    IF metric = "cosine" THEN Cosine(m, transpose, a, b)
    ELSE Cityblock(m, transpose, a, b)

\* squareform(pdist(...)): symmetric, zero diagonal; no pair at all (fewer
\* than two vectors) gives the 1 x 1 matrix [[0]]
SquareSize(m, transpose) ==
    IF VectorCount(m, transpose) <= 1 THEN 1 ELSE VectorCount(m, transpose)
Squareform(m, metric, transpose) ==
    [c \in (0..(SquareSize(m, transpose) - 1)) \X (0..(SquareSize(m, transpose) - 1)) |->
        IF c[1] = c[2] THEN 0
        ELSE IF c[1] < c[2] THEN Pdist(m, metric, transpose, c[1], c[2])
        ELSE Pdist(m, metric, transpose, c[2], c[1])]

\* line 140: similarity_matrix[np.isnan(similarity_matrix)] = 1.0
RemoveNaNs(d) == [c \in DOMAIN d |-> IF d[c] = NaN THEN Scale ELSE d[c]]

\* similarity_matrix.max()
MatrixMax(d) == Max({d[c] : c \in DOMAIN d})

\* line 142, one element: (max - x) / max; 0 / 0 is NaN (every distance is
\* >= 0, so max = 0 makes the numerator 0 as well)
Transform(x, mx) == IF mx = 0 THEN NaN ELSE ((mx - x) * Scale) \div mx

\* the value returned by compute_similarity (lines 133-144)
SimilarityMatrix(m, metric, transpose) ==
    LET d == RemoveNaNs(Squareform(m, metric, transpose))
    IN [shape |-> <<SquareSize(m, transpose), SquareSize(m, transpose)>>,
        cells |-> [c \in DOMAIN d |-> Transform(d[c], MatrixMax(d))]]

\* compute_similarity (lines 124-144); self.matrix is None before
\* create_matrix: None has no attribute T, pdist rejects None.  A matrix
\* without rows or without columns is left out.
compute_similarity(transpose) ==
    /\ matrix # None => (matrix.shape[1] > 0 /\ matrix.shape[2] > 0)
    /\ IF matrix = None
       THEN /\ raised' = IF transpose THEN "AttributeError" ELSE "ValueError"
            /\ UNCHANGED similarity_matrix
       ELSE /\ raised' = "none"
            /\ similarity_matrix' = SimilarityMatrix(matrix, similarity_metric, transpose)
    /\ last' = "compute_similarity"
    /\ UNCHANGED <<config, maps, data, matrix, evaluation_results, ranking,
                   written, evaluated>>

\* an instance with any similarity metric and either feedback encoding
SimInit ==
    /\ train_file \in Sources(Rows, MaxRows)
    /\ test_file \in TestSources
    /\ output_file = NoneStr
    /\ as_binary \in BOOLEAN
    /\ similarity_metric \in Metrics
    /\ sep = "\t"
    /\ output_sep = "\t"
    /\ verbose = FALSE
    /\ recommender_name = NoneStr
    /\ Constructed

SimNext ==
    \/ call_read_data
    \/ create_matrix
    \/ \E transpose \in BOOLEAN : compute_similarity(transpose)

SimSpec == SimInit /\ [][SimNext]_vars

\* the content of the train source, or of a configured test source, changes
\* between two invocations (the file is rewritten, the dataframe replaced)
source_changes ==
    /\ \/ /\ train_file' \in Sources(Rows, MaxRows) \ {train_file}
          /\ UNCHANGED test_file
       \/ /\ test_file # None
          /\ test_file' \in TestSources \ {None, test_file}
          /\ UNCHANGED train_file
    /\ UNCHANGED <<output_file, as_binary, similarity_metric, sep, output_sep,
                   verbose, recommender_name>>
    /\ UNCHANGED <<maps, data, matrix, evaluation_results, ranking,
                   last, raised, similarity_matrix, written, evaluated>>

ReuseNext == call_read_data \/ source_changes

ReuseSpec == DataInit /\ [][ReuseNext]_vars

DataNext == call_read_data \/ create_matrix

DataSpec == DataInit /\ [][DataNext]_vars
\* ================================================================ claims

\* the train set is loaded and has entities (C9 is about the one that has none)
TrainLoaded == train_set # None /\ Len(train_set.users) > 0 /\ Len(train_set.items) > 0

\* forward and reverse map are mutually inverse on the entities of list, the
\* forward map has one entry per entity and its indices are 0..n-1
Bijection(fwd, rev, list) ==
    /\ DOMAIN fwd = Range(list)
    /\ Cardinality(DOMAIN fwd) = Cardinality(Range(list))
    /\ {fwd[x] : x \in DOMAIN fwd} = 0..(Cardinality(Range(list)) - 1)
    /\ DOMAIN rev = 0..(Cardinality(Range(list)) - 1)
    /\ \A x \in Range(list) : fwd[x] \in DOMAIN rev /\ rev[fwd[x]] = x

\* C1: after read_data on an instance whose maps were empty (the sources of
\* DataSpec never change, so every read delivers what the first one did), the
\* user maps and the item maps are bijections between the entities of the
\* universe (train, or train plus test) and 0..n-1, with one forward entry
\* per distinct entity.
C1_MapsAreBijections ==
    last = "read_data" =>
        /\ Bijection(user_to_user_id, user_id_to_user, users)
        /\ Bijection(item_to_item_id, item_id_to_item, items)
        /\ Range(users) = Range(train_set.users) \cup
                (IF test_set = None THEN {} ELSE Range(test_set.users))
        /\ Range(items) = Range(train_set.items) \cup
                (IF test_set = None THEN {} ELSE Range(test_set.items))

\* read_data has run with a test set that brings a user the train set lacks
C1_Witness ==
    /\ last = "read_data"
    /\ test_set # None
    /\ Len(users) = 2
    /\ Len(train_set.users) = 1
    /\ Len(items) = 2

\* C2: when compute is over and hands over to the ranking-producing step,
\* the ranking is empty, whatever it held before the invocation.
C2_RankingEmptyAtHandOver == last = "compute" => ranking = <<>>

\* compute has run on an instance whose earlier ranking, not empty, had been
\* handed to the evaluation
C2_Witness ==
    /\ last = "compute"
    /\ ranking = <<>>
    /\ evaluated # None
    /\ Len(evaluated.predictions) > 0

RECURSIVE SumOver(_, _)
\* the sum of f over the finite set S
SumOver(f, S) ==
    IF S = {} THEN 0
    ELSE LET x == CHOOSE x \in S : TRUE IN f[x] + SumOver(f, S \ {x})

\* the (user, item) pairs of the train set
TrainPairs == {p \in Range(train_set.users) \X Range(train_set.items) :
                p[2] \in DOMAIN train_set.feedback[p[1]]}
TrainValues == [p \in TrainPairs |-> train_set.feedback[p[1]][p[2]]]

\* C3: after create_matrix the matrix has shape |users| x |items|, the cell
\* of every train interaction (u, i, v) holds v, every other cell is 0, the
\* cells sum to the sum of the train feedback values, and the row / column of
\* an entity that is in the test set only is all zero.
C3_MatrixHoldsTrainFeedback ==
    (last = "create_matrix" /\ raised = "none") =>
        /\ matrix.shape = <<Len(users), Len(items)>>
        /\ DOMAIN matrix.cells = (0..(Len(users) - 1)) \X (0..(Len(items) - 1))
        /\ \A p \in TrainPairs :
              matrix.cells[<<user_to_user_id[p[1]], item_to_item_id[p[2]]>>] = TrainValues[p]
        /\ \A c \in DOMAIN matrix.cells :
              (\A p \in TrainPairs :
                    <<user_to_user_id[p[1]], item_to_item_id[p[2]]>> # c)
              => matrix.cells[c] = 0
        /\ SumOver(matrix.cells, DOMAIN matrix.cells) = SumOver(TrainValues, TrainPairs)
        /\ \A u \in Range(users) \ Range(train_set.users) :
              \A k \in 0..(Len(items) - 1) : matrix.cells[<<user_to_user_id[u], k>>] = 0
        /\ \A i \in Range(items) \ Range(train_set.items) :
              \A k \in 0..(Len(users) - 1) : matrix.cells[<<k, item_to_item_id[i]>>] = 0

\* create_matrix has run over two train interactions of different value and
\* a test set that brings a user of its own
C3_Witness ==
    /\ last = "create_matrix"
    /\ raised = "none"
    /\ Cardinality(TrainPairs) = 2
    /\ SumOver(matrix.cells, DOMAIN matrix.cells) = 3
    /\ Range(users) # Range(train_set.users)

\* C4: the matrix returned by compute_similarity is symmetric and every
\* value of it lies in [0, 1] (a NaN lies in no interval and equals nothing).
C4_SimilaritySymmetricInUnitInterval ==
    (TrainLoaded /\ similarity_matrix # None) =>
        \A c \in DOMAIN similarity_matrix.cells :
            /\ similarity_matrix.cells[c] # NaN
            /\ similarity_matrix.cells[c] >= 0
            /\ similarity_matrix.cells[c] <= Scale
            /\ similarity_matrix.cells[<<c[2], c[1]>>] = similarity_matrix.cells[c]

\* at least two vectors, all identical, every pairwise distance defined
AllIdenticalDefined(m, metric, transpose) ==
    /\ VectorCount(m, transpose) >= 2
    /\ \A a, b \in 0..(VectorCount(m, transpose) - 1) :
          \A k \in 0..(VectorLen(m, transpose) - 1) :
              Entry(m, transpose, a, k) = Entry(m, transpose, b, k)
    /\ \A c \in DOMAIN Squareform(m, metric, transpose) :
          Squareform(m, metric, transpose)[c] # NaN

\* C5: when all the compared vectors are identical and their distances are
\* defined, compute_similarity returns 1.0 everywhere and no NaN.
C5_IdenticalRowsGiveOnes ==
    \A transpose \in BOOLEAN :
        ( /\ TrainLoaded
          /\ last = "compute_similarity"
          /\ raised = "none"
          /\ similarity_matrix = SimilarityMatrix(matrix, similarity_metric, transpose)
          /\ AllIdenticalDefined(matrix, similarity_metric, transpose) )
        => \A c \in DOMAIN similarity_matrix.cells : similarity_matrix.cells[c] = Scale

C7_EvaluateOnlyWithTestSet ==
    /\ (TrainLoaded /\ test_set = None) =>
            (evaluated = None /\ evaluation_results = None)
    /\ (last = "evaluate" /\ test_set # None) =>
            /\ evaluated.predictions = ranking
            /\ evaluated.test_set = test_set
            /\ evaluation_results = EvaluateRecommender(evaluated)

\* C8: write_ranking invokes the writer exactly when an output is configured
\* and hands it the output delimiter.
C8_WriterGetsOutputSep ==
    /\ written # None => output_file # NoneStr
    /\ (last = "write_ranking" /\ output_file # NoneStr) =>
            (written # None /\ written.data = ranking)
    /\ written # None => written.sep = output_sep

\* C9: a train set without entities makes the run fail with MissingDataError
\* while the data is loaded: no matrix is built, nothing is written.
C9_EmptyTrainRaises ==
    (train_set # None /\ (Len(train_set.users) = 0 \/ Len(train_set.items) = 0)) =>
        /\ raised = "MissingDataError"
        /\ matrix = None
        /\ written = None

====
